---------------------------- MODULE Spec2Model ----------------------------
(***************************************************************************)
(* Model of scripts/release/asset_publish.py: the release script that      *)
(* publishes data, environment, component and model assets to a registry   *)
(* by shelling out to the az CLI.                                          *)
(*                                                                         *)
(* Text is modelled as a sequence of one-character strings, so that the    *)
(* regular expressions and the string templates of the script are computed *)
(* character by character.  An absent optional string (Python None or "")  *)
(* is the empty sequence: a regular-expression group (.+) is never empty,  *)
(* and the script tests these values for truthiness only.                  *)
(***************************************************************************)
EXTENDS Integers, Sequences, FiniteSets, TLC

(***************************************************************************)
(* Bounds                                                                  *)
(***************************************************************************)
\* Largest number of assets found in the assets directory.
MaxAssets == 2

(***************************************************************************)
(* Text constants of the script                                            *)
(***************************************************************************)
None == << >>

DATA == "data"
ENVIRONMENT == "environment"
COMPONENT == "component"
MODEL == "model"

AssetTypes == {DATA, ENVIRONMENT, COMPONENT, MODEL}

\* assets.AssetType.<X>.value, as text
TypeText(asset_type) ==
    CASE asset_type = DATA -> <<"d","a","t","a">>
      [] asset_type = ENVIRONMENT -> <<"e","n","v","i","r","o","n","m","e","n","t">>
      [] asset_type = COMPONENT -> <<"c","o","m","p","o","n","e","n","t">>
      [] asset_type = MODEL -> <<"m","o","d","e","l">>

PIPELINE == "pipeline"
COMMAND == "command"
PARALLEL == "parallel"

\* components ahead of the environments they use
CREATE_ORDER_components_first == <<DATA, COMPONENT, ENVIRONMENT, MODEL>>

CREATE_ORDER == <<DATA, ENVIRONMENT, COMPONENT, MODEL>>

PROD_SYSTEM_REGISTRY == <<"a","z","u","r","e","m","l">>
LATEST_LABEL == <<"l","a","t","e","s","t">>

AZUREML_COLON == <<"a","z","u","r","e","m","l",":">>
AZUREML_REGISTRIES ==
    <<"a","z","u","r","e","m","l",":","/","/","r","e","g","i","s","t","r","i","e","s","/">>
SLASH == <<"/">>
SLASH_VERSIONS == <<"/","v","e","r","s","i","o","n","s","/">>
SLASH_LABELS == <<"/","l","a","b","e","l","s","/">>
DASH == <<"-">>

\* pluralize_asset_type: "<type>s", except that "data" stays "data"
pluralize_asset_type(asset_type) ==
    IF asset_type # DATA THEN TypeText(asset_type) \o <<"s">> ELSE TypeText(asset_type)

\* a template that puts the version under labels/
ASSET_ID_TEMPLATE_labels(registry_name, asset_type_text, asset_name, version) ==
    AZUREML_REGISTRIES \o registry_name \o SLASH \o asset_type_text \o SLASH
        \o asset_name \o SLASH_LABELS \o version

\* ASSET_ID_TEMPLATE.substitute(...)
ASSET_ID_TEMPLATE(registry_name, asset_type_text, asset_name, version) ==
    AZUREML_REGISTRIES \o registry_name \o SLASH \o asset_type_text \o SLASH
        \o asset_name \o SLASH_VERSIONS \o version

(***************************************************************************)
(* Regular expressions, with the greedy, backtracking semantics of re      *)
(***************************************************************************)
MaxOf(S) == CHOOSE x \in S : \A y \in S : y <= x

\* the literal lit occurs in s at position p
LitAt(s, p, lit) ==
    /\ p >= 1
    /\ p + Len(lit) - 1 <= Len(s)
    /\ SubSeq(s, p, p + Len(lit) - 1) = lit

\* last position of the longest run of non-newline characters of s that
\* starts at p (p - 1 when the run is empty): what a greedy .+ can cover
RECURSIVE DotRunEnd(_, _)
DotRunEnd(s, p) ==
    IF p <= Len(s) /\ s[p] # "\n" THEN DotRunEnd(s, p + 1) ELSE p - 1

\* $ holds after position e of s: at the end, or before a final newline
AtEnd(s, e) == e = Len(s) \/ (e = Len(s) - 1 /\ s[Len(s)] = "\n")

\* REGISTRY_ASSET_TEMPLATE for the given plural type, applied with re.match:
\*   ^azureml://registries/(.+)/<types>/(.+)/(?:versions/(.+)|labels/(.+))
RegistryAssetMatch(plural, s) ==
    LET sep == SLASH \o plural \o SLASH
        p0 == Len(AZUREML_REGISTRIES) + 1
        TailAt(j, lit) ==
            /\ LitAt(s, j + 1, lit)
            /\ DotRunEnd(s, j + 1 + Len(lit)) >= j + 1 + Len(lit)
        G2(a) == {j \in a..DotRunEnd(s, a) :
                     TailAt(j, SLASH_VERSIONS) \/ TailAt(j, SLASH_LABELS)}
        G1 == IF LitAt(s, 1, AZUREML_REGISTRIES)
              THEN {i \in p0..DotRunEnd(s, p0) :
                       LitAt(s, i + 1, sep) /\ G2(i + 1 + Len(sep)) # {}}
              ELSE {}
    IN  IF G1 = {} THEN [matched |-> FALSE]
        ELSE LET i == MaxOf(G1)
                 a == i + 1 + Len(sep)
                 j == MaxOf(G2(a))
                 isVersion == TailAt(j, SLASH_VERSIONS)
                 b == j + 1 + (IF isVersion THEN Len(SLASH_VERSIONS) ELSE Len(SLASH_LABELS))
                 rest == SubSeq(s, b, DotRunEnd(s, b))
             IN  [matched |-> TRUE,
                  registry |-> SubSeq(s, p0, i),
                  name |-> SubSeq(s, a, j),
                  version |-> IF isVersion THEN rest ELSE None,
                  label |-> IF isVersion THEN None ELSE rest]

\* (.+)(?::(.+)|@(.+))$ applied to s from position a
WorkspaceTailMatch(s, a) ==
    LET G == {i \in a..DotRunEnd(s, a) :
                 /\ i + 1 <= Len(s)
                 /\ s[i + 1] \in {":", "@"}
                 /\ DotRunEnd(s, i + 2) >= i + 2
                 /\ AtEnd(s, DotRunEnd(s, i + 2))}
    IN  IF G = {} THEN [matched |-> FALSE]
        ELSE LET i == MaxOf(G)
                 rest == SubSeq(s, i + 2, DotRunEnd(s, i + 2))
             IN  [matched |-> TRUE,
                  name |-> SubSeq(s, a, i),
                  version |-> IF s[i + 1] = ":" THEN rest ELSE None,
                  label |-> IF s[i + 1] = "@" THEN rest ELSE None]

\* a WORKSPACE_ASSET_PATTERN without the optional prefix
WorkspaceAssetMatch_no_prefix(s) == WorkspaceTailMatch(s, 1)

\* WORKSPACE_ASSET_PATTERN applied with re.match:
\*   ^(?:azureml:)?(.+)(?::(.+)|@(.+))$
\* the optional prefix is consumed first and given back on failure
WorkspaceAssetMatch(s) ==
    LET withPrefix == IF LitAt(s, 1, AZUREML_COLON)
                      THEN WorkspaceTailMatch(s, Len(AZUREML_COLON) + 1)
                      ELSE [matched |-> FALSE]
    IN  IF withPrefix.matched THEN withPrefix ELSE WorkspaceTailMatch(s, 1)

\* get_parsed_details_from_asset_uri; raised = TRUE is the Exception
get_parsed_details_from_asset_uri(asset_type, asset_uri) ==
    LET rm == RegistryAssetMatch(pluralize_asset_type(asset_type), asset_uri)
        wm == WorkspaceAssetMatch(asset_uri)
    IN  IF rm.matched
        THEN [raised |-> FALSE, name |-> rm.name, version |-> rm.version,
              label |-> rm.label, registry |-> rm.registry]
        ELSE IF wm.matched
        THEN [raised |-> FALSE, name |-> wm.name, version |-> wm.version,
              label |-> wm.label, registry |-> None]
        ELSE [raised |-> TRUE, name |-> None, version |-> None,
              label |-> None, registry |-> None]

(***************************************************************************)
(* The registry behind the az CLI                                          *)
(*                                                                         *)
(* A registry snapshot is a sequence of entries, newest first.  Every      *)
(* external command is recorded in a log entry, so that the order of the   *)
(* commands of a run can be stated.                                        *)
(***************************************************************************)
Entry(registry_name, asset_type, asset_name, asset_version) ==
    [registry |-> registry_name, type |-> asset_type, name |-> asset_name,
     version |-> asset_version]

\* a log entry; owner is filled in by the main loop with the asset at hand
Cmd(op, registry_name, asset_type, asset_name, asset_version) ==
    [op |-> op, owner |-> "-", phase |-> "-", registry |-> registry_name,
     type |-> asset_type, name |-> asset_name, version |-> asset_version,
     result |-> "-", versions |-> << >>]

\* the entries cmds, issued for asset a in the given phase of the main loop
Stamp(cmds, a, phase) ==
    [i \in DOMAIN cmds |-> [cmds[i] EXCEPT !.owner = a, !.phase = phase]]

RECURSIVE VersionsOf(_, _, _, _)
VersionsOf(reg, asset_type, asset_name, registry_name) ==
    IF reg = << >> THEN << >>
    ELSE LET e == Head(reg)
             rest == VersionsOf(Tail(reg), asset_type, asset_name, registry_name)
         IN  IF e.registry = registry_name /\ e.type = asset_type /\ e.name = asset_name
             THEN <<e.version>> \o rest
             ELSE rest

\* get_asset_versions: az ml <type> list --name <name> --registry-name <r>
get_asset_versions(reg, asset_type, asset_name, registry_name) ==
    LET versions == VersionsOf(reg, asset_type, asset_name, registry_name)
    IN  [versions |-> versions,
         cmds |-> <<[Cmd("list", registry_name, asset_type, asset_name, None)
                        EXCEPT !.versions = versions]>>]

Exists(reg, e) == \E i \in DOMAIN reg : reg[i] = e

\* get_asset_details: az ml <type> show --name --version --registry-name.
\* A None among the arguments makes subprocess.run raise TypeError before
\* any process is started.
get_asset_details(reg, asset_type, asset_name, asset_version, registry_name) ==
    IF asset_version = None
    THEN [raised |-> TRUE, found |-> FALSE, id |-> None, cmds |-> << >>]
    ELSE LET found == Exists(reg, Entry(registry_name, asset_type, asset_name,
                                        asset_version))
         IN  [raised |-> FALSE,
              found |-> found,
              id |-> ASSET_ID_TEMPLATE(registry_name, pluralize_asset_type(asset_type),
                                       asset_name, asset_version),
              cmds |-> <<[Cmd("show", registry_name, asset_type, asset_name, asset_version)
                             EXCEPT !.result = IF found THEN "found" ELSE "missing"]>>]

\* "for version in versions_to_try: if get_asset_details(...) is not None"
\* the first version that is found ends the loop
RECURSIVE TryVersions(_, _, _, _, _)
TryVersions(reg, asset_type, asset_name, versions_to_try, registry_name) ==
    IF versions_to_try = << >>
    THEN [raised |-> FALSE, found |-> FALSE, id |-> None, cmds |-> << >>]
    ELSE LET d == get_asset_details(reg, asset_type, asset_name,
                                    Head(versions_to_try), registry_name)
         IN  IF d.raised \/ d.found THEN d
             ELSE LET r == TryVersions(reg, asset_type, asset_name,
                                       Tail(versions_to_try), registry_name)
                  IN  [r EXCEPT !.cmds = d.cmds \o r.cmds]

(***************************************************************************)
(* Environment reference of a command or parallel component                *)
(***************************************************************************)
\* values of a YAML field or of a Python result: text, False or None
Text(s) == [k |-> "str", s |-> s]
PyFalse == [k |-> "False", s |-> None]
PyNone == [k |-> "None", s |-> None]

WarnIfForeign(asset_type, asset_name, asset_registry, registry_name) ==
    IF asset_registry # None /\ asset_registry \notin {PROD_SYSTEM_REGISTRY, registry_name}
    THEN <<Cmd("warn", asset_registry, asset_type, asset_name, None)>>
    ELSE << >>

\* versions_to_try of get_environment_asset_id
VersionsToTry(env_version, version_suffix) ==
    IF version_suffix # None
    THEN <<env_version, env_version \o DASH \o version_suffix>>
    ELSE <<env_version>>

\* lines 275-287: try the versions, the last part of get_environment_asset_id
FindEnvironment(reg, env_name, env_version, version_suffix, env_registry) ==
    TryVersions(reg, ENVIRONMENT, env_name, VersionsToTry(env_version, version_suffix),
                env_registry)

\* the value that get_environment_asset_id returns after the commands before
EnvironmentId(before, tried) ==
    [value |-> IF tried.found THEN Text(tried.id) ELSE PyNone,
     cmds |-> before \o tried.cmds]

\* lines 262-268: the label is "latest", the listed versions are at hand
LatestEnvironment(reg, env_name, listed, warn, version_suffix, env_registry) ==
    IF listed.versions # << >>
    THEN EnvironmentId(warn \o listed.cmds,
                       FindEnvironment(reg, env_name, listed.versions[1], version_suffix,
                                       env_registry))
    ELSE [value |-> PyFalse, cmds |-> warn \o listed.cmds]

\* lines 256-287: the URI is parsed, the registry to look in is known
ResolveEnvironment(reg, parsed, warn, version_suffix, env_registry) ==
    IF parsed.label # None
    THEN IF parsed.label = LATEST_LABEL
         THEN LatestEnvironment(reg, parsed.name,
                                get_asset_versions(reg, ENVIRONMENT, parsed.name,
                                                   env_registry),
                                warn, version_suffix, env_registry)
         ELSE [value |-> PyFalse, cmds |-> warn]
    ELSE EnvironmentId(warn, FindEnvironment(reg, parsed.name, parsed.version,
                                             version_suffix, env_registry))

\* lines 238-256: the outcome of the parse
EnvironmentOfParsed(reg, parsed, version_suffix, registry_name) ==
    IF parsed.raised
    THEN [value |-> PyFalse, cmds |-> << >>]
    ELSE ResolveEnvironment(reg, parsed,
                            WarnIfForeign(ENVIRONMENT, parsed.name, parsed.registry,
                                          registry_name),
                            version_suffix,
                            IF parsed.registry # None THEN parsed.registry
                            ELSE registry_name)

\* get_environment_asset_id: the environment's asset ID, False or None
get_environment_asset_id(reg, environment_id, version_suffix, registry_name) ==
    EnvironmentOfParsed(reg,
                        get_parsed_details_from_asset_uri(ENVIRONMENT, environment_id),
                        version_suffix, registry_name)

(***************************************************************************)
(* Spec files.  A spec file holds the component type, the place and value  *)
(* of the environment reference (command and parallel components), the     *)
(* jobs (pipeline components) and whether a model was prepared.            *)
(***************************************************************************)
SpecFile(ctype, env_at, environment, jobs) ==
    [ctype |-> ctype, env_at |-> env_at, environment |-> environment,
     jobs |-> jobs, prepared |-> FALSE]

Job(component) == [component |-> component]

DUMP_YAML == "dump_yaml"

\* version + "-" + version_suffix if version_suffix else version
FinalVersion(version, version_suffix) ==
    IF version_suffix # None THEN version \o DASH \o version_suffix ELSE version

\* lines 330-345: the spec file is rewritten unless the new ID is None
UpdateEnvironment(spec, current_env_id, new_env_id, cmds) ==
    IF new_env_id # PyNone
    THEN [ok |-> TRUE,
          spec |-> IF current_env_id # new_env_id
                   THEN [spec EXCEPT !.environment = new_env_id]
                   ELSE spec,
          cmds |-> cmds \o <<Cmd(DUMP_YAML, None, COMPONENT, None, None)>>]
    ELSE [ok |-> FALSE, spec |-> spec, cmds |-> cmds]

UpdateEnvironmentWith(spec, r) == UpdateEnvironment(spec, spec.environment, r.value, r.cmds)

\* validate_update_component: resolve the environment reference and rewrite
\* the spec file
validate_update_component(reg, spec, version_suffix, registry_name) ==
    IF spec.env_at = "none"
    THEN [ok |-> FALSE, spec |-> spec, cmds |-> << >>]
    ELSE UpdateEnvironmentWith(spec,
             get_environment_asset_id(reg, spec.environment.s, version_suffix,
                                      registry_name))

PrependCmds(cmds, r) == [r EXCEPT !.cmds = cmds \o @]

\* the loop over the jobs of validate_and_prepare_pipeline_component, from
\* job i on; registry_name is the local variable, which a job rebinds
RECURSIVE PipelineJobs(_, _, _, _, _, _)
RECURSIVE PipelineJob(_, _, _, _, _, _, _)
RECURSIVE PipelineJobTried(_, _, _, _, _, _, _, _)

\* lines 203-210: the versions of the component of job i were tried
PipelineJobTried(reg, jobs, i, updated_jobs, version_suffix, job_registry, warn, tried) ==
    IF ~tried.found
    THEN [ok |-> FALSE, raised |-> FALSE, jobs |-> jobs, cmds |-> warn \o tried.cmds]
    ELSE PrependCmds(warn \o tried.cmds,
                     PipelineJobs(reg, jobs, i + 1, Append(updated_jobs, Job(tried.id)),
                                  version_suffix, job_registry))

\* lines 171-201: the component URI of job i is parsed.  For a version of
\* None, version + "-" + version_suffix raises TypeError, and so does the az
\* command with None among its arguments.
PipelineJob(reg, jobs, i, updated_jobs, version_suffix, registry_name, parsed) ==
    IF parsed.raised
    THEN [ok |-> FALSE, raised |-> FALSE, jobs |-> jobs, cmds |-> << >>]
    ELSE IF parsed.version = None
    THEN [ok |-> FALSE, raised |-> TRUE, jobs |-> jobs,
          cmds |-> WarnIfForeign(COMPONENT, parsed.name, parsed.registry, registry_name)]
    ELSE PipelineJobTried(reg, jobs, i, updated_jobs, version_suffix,
             IF parsed.registry # None THEN parsed.registry ELSE registry_name,
             WarnIfForeign(COMPONENT, parsed.name, parsed.registry, registry_name),
             TryVersions(reg, COMPONENT, parsed.name,
                         <<parsed.version, FinalVersion(parsed.version, version_suffix)>>,
                         IF parsed.registry # None THEN parsed.registry
                         ELSE registry_name))

PipelineJobs(reg, jobs, i, updated_jobs, version_suffix, registry_name) ==
    IF i > Len(jobs)
    THEN [ok |-> TRUE, raised |-> FALSE, jobs |-> updated_jobs, cmds |-> << >>]
    ELSE IF jobs[i].component = None
    THEN PipelineJobs(reg, jobs, i + 1, Append(updated_jobs, jobs[i]),
                      version_suffix, registry_name)
    ELSE PipelineJob(reg, jobs, i, updated_jobs, version_suffix, registry_name,
                     get_parsed_details_from_asset_uri(COMPONENT, jobs[i].component))

\* a dump of the jobs gathered so far, whether or not the loop succeeded
PipelineWritten_always(spec, r) ==
    [ok |-> r.ok, raised |-> r.raised,
     spec |-> [spec EXCEPT !.jobs = r.jobs],
     cmds |-> r.cmds \o <<Cmd(DUMP_YAML, None, COMPONENT, None, None)>>]

\* lines 212-219: the spec file is written only after the loop
PipelineWritten(spec, r) ==
    IF r.ok
    THEN [ok |-> TRUE, raised |-> FALSE,
          spec |-> [spec EXCEPT !.jobs = r.jobs],
          cmds |-> r.cmds \o <<Cmd(DUMP_YAML, None, COMPONENT, None, None)>>]
    ELSE [ok |-> FALSE, raised |-> r.raised, spec |-> spec, cmds |-> r.cmds]

\* validate_and_prepare_pipeline_component
validate_and_prepare_pipeline_component(reg, spec, version_suffix, registry_name) ==
    PipelineWritten(spec, PipelineJobs(reg, spec.jobs, 1, << >>, version_suffix,
                                       registry_name))

\* a create_asset that records a failure whatever the return code
create_asset_always(a, failure_list, returncode) == Append(failure_list, a)

\* create_asset: az ml <type> create; a non-zero return code appends the
\* asset to the failure list
create_asset(a, failure_list, returncode) ==
    IF returncode # 0 THEN Append(failure_list, a) ELSE failure_list

\* what a successful create leaves in the registry
Register(reg, e) == IF Exists(reg, e) THEN reg ELSE <<e>> \o reg

\* the component list left as it was found
SortPipelinesLast_unsorted(seq, specs) == seq

\* line 599: the sort of the component list by "is a pipeline component",
\* read from the spec files; the sort is stable
SortPipelinesLast(seq, specs) ==
    SelectSeq(seq, LAMBDA a : specs[a].ctype # PIPELINE)
        \o SelectSeq(seq, LAMBDA a : specs[a].ctype = PIPELINE)

(***************************************************************************)
(* The inputs of a run: the assets directory, the publish list, the        *)
(* command line and the first contents of the registries.                  *)
(***************************************************************************)
TargetRegistry == <<"t">>
OtherRegistry == <<"x">>
V1 == <<"1">>
V2 == <<"2">>
Suffix == <<"r">>
V1Suffixed == <<"1","-","r">>
FailedListPath == <<"f">>
TestsPath == <<"s">>
Wildcard == <<"*">>

\* dependency references found in the spec files
\* azureml:e:1
URI_E1 ==
    <<"a","z","u","r","e","m","l",":","e",":","1">>
\* e@latest
URI_E_LATEST ==
    <<"e","@","l","a","t","e","s","t">>
\* e@stable
URI_E_STABLE ==
    <<"e","@","s","t","a","b","l","e">>
\* e
URI_E_BARE ==
    <<"e">>
\* azureml://registries/x/environments/e/versions/1
URI_X_E1 ==
    <<"a","z","u","r","e","m","l",":","/","/","r","e","g","i","s","t","r","i","e","s","/","x","/","e","n","v","i","r","o","n","m","e","n","t","s","/","e","/","v","e","r","s","i","o","n","s","/","1">>
\* azureml:c:1
URI_C1 ==
    <<"a","z","u","r","e","m","l",":","c",":","1">>
\* azureml:k:1
URI_K1 ==
    <<"a","z","u","r","e","m","l",":","k",":","1">>
\* azureml://registries/x/components/c/versions/1
URI_X_C1 ==
    <<"a","z","u","r","e","m","l",":","/","/","r","e","g","i","s","t","r","i","e","s","/","x","/","c","o","m","p","o","n","e","n","t","s","/","c","/","v","e","r","s","i","o","n","s","/","1">>
\* c@latest
URI_C_LATEST ==
    <<"c","@","l","a","t","e","s","t">>

NoSpec == SpecFile("none", "none", PyNone, << >>)
CommandSpec(ctype, env_at, environment) == SpecFile(ctype, env_at, Text(environment), << >>)
PipelineSpec(jobs) == SpecFile(PIPELINE, "none", PyNone, jobs)

\* The assets that the assets directory can hold; an asset is known by a
\* one-character name.
AssetIds == {"d", "e", "c", "k", "b", "n", "q", "p", "g", "h", "m"}

AssetConfig(a) ==
    LET cfg(asset_type, spec) ==
            [type |-> asset_type, name |-> <<a>>, version |-> V1, spec |-> spec]
    IN  CASE a = "d" -> cfg(DATA, NoSpec)
          [] a = "e" -> cfg(ENVIRONMENT, NoSpec)
          [] a = "m" -> cfg(MODEL, NoSpec)
          \* azureml:e:1
          [] a = "c" -> cfg(COMPONENT, CommandSpec(COMMAND, "top", URI_E1))
          \* e@latest
          [] a = "k" -> cfg(COMPONENT, CommandSpec(COMMAND, "top", URI_E_LATEST))
          \* e@stable
          [] a = "b" -> cfg(COMPONENT, CommandSpec(COMMAND, "top", URI_E_STABLE))
          \* e: neither a registry nor a workspace URI, in a component without a type
          [] a = "n" -> cfg(COMPONENT, CommandSpec("none", "top", URI_E_BARE))
          \* azureml://registries/x/environments/e/versions/1, under task
          [] a = "q" -> cfg(COMPONENT, CommandSpec(PARALLEL, "task", URI_X_E1))
          [] a = "p" -> cfg(COMPONENT, PipelineSpec(<<Job(URI_C1), Job(None), Job(URI_K1)>>))
          [] a = "g" -> cfg(COMPONENT, PipelineSpec(<<Job(URI_X_C1), Job(URI_K1)>>))
          [] a = "h" -> cfg(COMPONENT, PipelineSpec(<<Job(URI_C_LATEST)>>))

\* sequences of distinct assets, of length at most n
DistinctSeqs(n) ==
    UNION {{q \in [1..k -> AssetIds] : \A i, j \in 1..k : i # j => q[i] # q[j]} : k \in 0..n}

\* publish lists: the 'create' mapping of the publish list file, in file order
CreateLists ==
    {<< >>,
     <<[type |-> COMPONENT, names |-> {Wildcard}], [type |-> MODEL, names |-> {Wildcard}],
       [type |-> DATA, names |-> {Wildcard}], [type |-> ENVIRONMENT, names |-> {Wildcard}]>>,
     <<[type |-> MODEL, names |-> {<<"m">>}],
       [type |-> COMPONENT, names |-> {<<"c">>, <<"k">>, <<"p">>, <<"h">>}]>>}

InCreateList(cl, asset_type) == \E i \in DOMAIN cl : cl[i].type = asset_type

\* create_list.get(asset_type, [])
NamesFor(cl, asset_type) ==
    IF InCreateList(cl, asset_type)
    THEN (CHOOSE e \in {cl[i] : i \in DOMAIN cl} : e.type = asset_type).names
    ELSE {}

\* first contents of the registries, newest first
RegistryStates ==
    {<<Entry(TargetRegistry, ENVIRONMENT, <<"e">>, V2),
       Entry(TargetRegistry, ENVIRONMENT, <<"e">>, V1),
       Entry(OtherRegistry, ENVIRONMENT, <<"e">>, V1),
       Entry(TargetRegistry, COMPONENT, <<"c">>, V1),
       Entry(OtherRegistry, COMPONENT, <<"c">>, V1),
       Entry(TargetRegistry, COMPONENT, <<"k">>, V1),
       Entry(TargetRegistry, MODEL, <<"m">>, V1)>>,
     <<Entry(TargetRegistry, ENVIRONMENT, <<"e">>, V1Suffixed),
       Entry(TargetRegistry, COMPONENT, <<"c">>, V1Suffixed),
       Entry(TargetRegistry, COMPONENT, <<"k">>, V1Suffixed),
       Entry(OtherRegistry, COMPONENT, <<"c">>, V1),
       Entry(OtherRegistry, COMPONENT, <<"k">>, V1)>>,
     <<Entry(TargetRegistry, COMPONENT, <<"c">>, V1)>>}

\* the jobs of the test job file of the tests directory, by component name
TestJobs == <<<<"c">>, <<"m">>, <<"z">>>>

(***************************************************************************)
(* The run of the script                                                   *)
(***************************************************************************)
VARIABLES
    pc,                 \* where the script is
    args,               \* the parsed command line
    create_list,        \* the 'create' mapping of the publish list
    all_assets,         \* the assets found, in the order they were found
    assets_by_type,     \* the assets found, grouped by type
    registry,           \* the contents of the registries, newest first
    registry0,          \* the contents of the registries at the start (history)
    spec_files,         \* the spec file of every asset, on disk
    failure_list,       \* the assets that failed, in order
    asset_ids,          \* asset name -> asset ID, for the test files
    type_index,         \* position of the outer loop in CREATE_ORDER
    assets_to_publish,  \* the list of the inner loop
    asset_index,        \* position of the inner loop
    status,             \* the state each asset has reached
    visited,            \* the assets in the order the loop body ran (history)
    log,                \* the external commands and file writes, in order
    failed_file,        \* the failed-assets manifest on disk
    test_file,          \* the component of every job of the test job file
    exit_status,        \* exit status of the process, -1 while it runs
    printed,            \* what the logger wrote from the output of external commands
    request,            \* the asset URI given to get_parsed_details_from_asset_uri
    parsed,             \* what get_parsed_details_from_asset_uri made of it
    detected,           \* the image size and what the detector returned for the image
    predictions,        \* the boxes of the inference output for the image
    calls               \* how many times a function was called on its own

vars == <<pc, args, create_list, all_assets, assets_by_type, registry, registry0, spec_files,
          failure_list, asset_ids, type_index, assets_to_publish, asset_index,
          status, visited, log, failed_file, test_file, exit_status,
          printed, request, parsed, detected, predictions, calls>>

\* the state of a run of the script
run_vars == <<pc, args, create_list, all_assets, assets_by_type, registry, registry0,
              spec_files, failure_list, asset_ids, type_index, assets_to_publish,
              asset_index, status, visited, log, failed_file, test_file, exit_status>>

\* the state of the functions when they are called on their own
unit_vars == <<printed, request, parsed, detected, predictions, calls>>

log_vars == <<printed>>

uri_vars == <<request, parsed>>

det_vars == <<detected, predictions>>

UnitIdle ==
    /\ printed = << >>
    /\ request = [kind |-> "none"]
    /\ parsed = [raised |-> FALSE]
    /\ detected = [task |-> "none"]
    /\ predictions = << >>
    /\ calls = 0

Unwritten == [written |-> FALSE, content |-> << >>]

Init ==
    /\ pc = "start"
    /\ args \in [registry_name : {TargetRegistry},
                 version_suffix : {None, Suffix},
                 failed_list : {None, FailedListPath},
                 tests_directory : {None, TestsPath}]
    /\ registry \in RegistryStates
    /\ registry0 = registry
    /\ spec_files = [a \in AssetIds |-> AssetConfig(a).spec]
    /\ create_list = << >>
    /\ all_assets = << >>
    /\ assets_by_type = [t \in AssetTypes |-> << >>]
    /\ failure_list = << >>
    /\ asset_ids = [n \in {} |-> None]
    /\ type_index = 1
    /\ assets_to_publish = << >>
    /\ asset_index = 1
    /\ status = [a \in AssetIds |-> "Absent"]
    /\ visited = << >>
    /\ log = << >>
    /\ failed_file = Unwritten
    /\ test_file = TestJobs
    /\ exit_status = -1
    /\ UnitIdle

\* lines 566-577: the create list is empty, exit(0)
ExitEmptyCreateList ==
    /\ UNCHANGED unit_vars
    /\ pc = "start"
    /\ \E cl \in CreateLists :
        /\ cl = << >>
        /\ create_list' = cl
    /\ pc' = "done"
    /\ exit_status' = 0
    /\ UNCHANGED <<registry0, args, all_assets, assets_by_type, registry, spec_files, failure_list,
                   asset_ids, type_index, assets_to_publish, asset_index, status,
                   visited, log, failed_file, test_file>>

\* lines 566-587: load the create list, find the assets, group them by type
Discover ==
    /\ UNCHANGED unit_vars
    /\ pc = "start"
    /\ \E cl \in CreateLists, found \in DistinctSeqs(MaxAssets) :
        /\ cl # << >>
        /\ create_list' = cl
        /\ all_assets' = found
        /\ assets_by_type' =
              [t \in AssetTypes |-> SelectSeq(found, LAMBDA a : AssetConfig(a).type = t)]
        /\ status' = [a \in AssetIds |->
                        IF \E i \in DOMAIN found : found[i] = a
                        THEN "Discovered" ELSE "Absent"]
    /\ type_index' = 1
    /\ pc' = "type"
    /\ UNCHANGED <<registry0, args, registry, spec_files, failure_list, asset_ids,
                   assets_to_publish, asset_index, visited, log, failed_file,
                   test_file, exit_status>>

\* lines 589-592: a type that is not in the create list is passed over
SkipType ==
    /\ UNCHANGED unit_vars
    /\ pc = "type"
    /\ type_index <= Len(CREATE_ORDER)
    /\ ~InCreateList(create_list, CREATE_ORDER[type_index])
    /\ type_index' = type_index + 1
    /\ UNCHANGED <<registry0, pc, args, create_list, all_assets, assets_by_type, registry,
                   spec_files, failure_list, asset_ids, assets_to_publish, asset_index,
                   status, visited, log, failed_file, test_file, exit_status>>

\* lines 594-601: the assets of the type; the component list is sorted in place
BeginType ==
    /\ UNCHANGED unit_vars
    /\ pc = "type"
    /\ type_index <= Len(CREATE_ORDER)
    /\ InCreateList(create_list, CREATE_ORDER[type_index])
    /\ LET t == CREATE_ORDER[type_index]
           sorted == IF t = COMPONENT
                     THEN SortPipelinesLast(assets_by_type[t], spec_files)
                     ELSE assets_by_type[t]
       IN  /\ assets_by_type' = [assets_by_type EXCEPT ![t] = sorted]
           /\ assets_to_publish' = sorted
    /\ asset_index' = 1
    /\ pc' = "asset"
    /\ UNCHANGED <<registry0, args, create_list, all_assets, registry, spec_files, failure_list,
                   asset_ids, type_index, status, visited, log, failed_file,
                   test_file, exit_status>>

\* line 601: the inner loop is exhausted
EndType ==
    /\ UNCHANGED unit_vars
    /\ pc = "asset"
    /\ asset_index > Len(assets_to_publish)
    /\ type_index' = type_index + 1
    /\ pc' = "type"
    /\ UNCHANGED <<registry0, args, create_list, all_assets, assets_by_type, registry, spec_files,
                   failure_list, asset_ids, assets_to_publish, asset_index, status,
                   visited, log, failed_file, test_file, exit_status>>

\* line 589: the outer loop is exhausted
EndPass ==
    /\ UNCHANGED unit_vars
    /\ pc = "type"
    /\ type_index > Len(CREATE_ORDER)
    /\ pc' = "report"
    /\ UNCHANGED <<registry0, args, create_list, all_assets, assets_by_type, registry, spec_files,
                   failure_list, asset_ids, type_index, assets_to_publish, asset_index,
                   status, visited, log, failed_file, test_file, exit_status>>

\* the loop body runs on an asset
AtAsset == pc = "asset" /\ asset_index <= Len(assets_to_publish)

CurrentAsset == assets_to_publish[asset_index]

\* line 604: "*" in asset_names or asset.name in asset_names
Selected(cl, a) ==
    LET asset_names == NamesFor(cl, AssetConfig(a).type)
    IN  Wildcard \in asset_names \/ AssetConfig(a).name \in asset_names

\* lines 608-616: the asset ID kept for the test files
RecordAssetId(a) ==
    LET cfg == AssetConfig(a)
    IN  asset_ids' = (cfg.name :> ASSET_ID_TEMPLATE(args.registry_name,
                                      pluralize_asset_type(cfg.type), cfg.name,
                                      FinalVersion(cfg.version, args.version_suffix)))
                        @@ asset_ids

\* an existence check at the suffixed version
ExistenceCheck_final_version(a) ==
    LET cfg == AssetConfig(a)
    IN  get_asset_details(registry, cfg.type, cfg.name,
                          FinalVersion(cfg.version, args.version_suffix),
                          args.registry_name)

\* line 618: the existence check, at the bare version
ExistenceCheck(a) ==
    LET cfg == AssetConfig(a)
    IN  get_asset_details(registry, cfg.type, cfg.name, cfg.version, args.registry_name)

\* the loop body goes on to the next asset
NextAsset(a) ==
    /\ asset_index' = asset_index + 1
    /\ visited' = Append(visited, a)
    /\ UNCHANGED <<registry0, pc, args, create_list, all_assets, assets_by_type, type_index,
                   assets_to_publish, failed_file, test_file, exit_status>>

\* lines 656-664: create_asset with the outcome of the az command
RunCreate(a, version, before) ==
    \E returncode \in {0, 1} :
        LET cfg == AssetConfig(a)
        IN  /\ failure_list' = create_asset(a, failure_list, returncode)
            /\ registry' = IF returncode = 0
                           THEN Register(registry, Entry(args.registry_name, cfg.type,
                                                         cfg.name, version))
                           ELSE registry
            /\ status' = [status EXCEPT ![a] = IF returncode = 0 THEN "Created"
                                                ELSE "Failed"]
            /\ log' = log \o before
                          \o Stamp(<<[Cmd("create", args.registry_name, cfg.type,
                                          cfg.name, version)
                                         EXCEPT !.result = IF returncode = 0 THEN "ok"
                                                           ELSE "failed"]>>,
                                   a, "create")

\* failure_list.append(asset); continue
RecordFailure(a, before) ==
    /\ failure_list' = Append(failure_list, a)
    /\ status' = [status EXCEPT ![a] = "Failed"]
    /\ log' = log \o before
    /\ UNCHANGED registry

\* lines 603-607: the asset is not in the create list
SkipAsset ==
    /\ UNCHANGED unit_vars
    /\ AtAsset
    /\ ~Selected(create_list, CurrentAsset)
    /\ status' = [status EXCEPT ![CurrentAsset] = "Skipped"]
    /\ NextAsset(CurrentAsset)
    /\ UNCHANGED <<registry, spec_files, failure_list, asset_ids, log>>

\* update_asset_metadata: only the metadata of a model is updated, and
\* update_model_metadata may raise
update_asset_metadata(a, raises) ==
    IF AssetConfig(a).type = MODEL
    THEN <<[Cmd("update_metadata", args.registry_name, MODEL, AssetConfig(a).name,
                AssetConfig(a).version)
               EXCEPT !.result = IF raises THEN "raised" ELSE "ok"]>>
    ELSE << >>

\* lines 618-624: the asset exists at its bare version; the metadata is
\* refreshed and an exception of the refresh is logged and dropped
UpdateExisting ==
    /\ UNCHANGED unit_vars
    /\ AtAsset
    /\ Selected(create_list, CurrentAsset)
    /\ ExistenceCheck(CurrentAsset).found
    /\ RecordAssetId(CurrentAsset)
    /\ \E refresh_raises \in BOOLEAN :
        log' = log \o Stamp(ExistenceCheck(CurrentAsset).cmds, CurrentAsset, "check")
                   \o Stamp(update_asset_metadata(CurrentAsset, refresh_raises),
                            CurrentAsset, "metadata")
    /\ status' = [status EXCEPT ![CurrentAsset] = "AlreadyExists"]
    /\ NextAsset(CurrentAsset)
    /\ UNCHANGED <<registry, spec_files, failure_list>>

\* the component was validated: create it, or record the failure
FinishComponent(a, check, r) ==
    /\ spec_files' = [spec_files EXCEPT ![a] = r.spec]
    /\ IF r.ok
       THEN RunCreate(a, FinalVersion(AssetConfig(a).version, args.version_suffix),
                      check \o Stamp(r.cmds, a, "resolve"))
       ELSE RecordFailure(a, check \o Stamp(r.cmds, a, "resolve"))
    /\ NextAsset(a)

\* lines 626-642 and 656-664: a command, parallel or untyped component
PublishComponent ==
    /\ UNCHANGED unit_vars
    /\ AtAsset
    /\ Selected(create_list, CurrentAsset)
    /\ ~ExistenceCheck(CurrentAsset).found
    /\ AssetConfig(CurrentAsset).type = COMPONENT
    /\ spec_files[CurrentAsset].ctype \in {"none", COMMAND, PARALLEL}
    /\ RecordAssetId(CurrentAsset)
    /\ FinishComponent(CurrentAsset,
                       Stamp(ExistenceCheck(CurrentAsset).cmds, CurrentAsset, "check"),
                       validate_update_component(registry, spec_files[CurrentAsset],
                                                 args.version_suffix, args.registry_name))

\* an exception leaves validate_and_prepare_pipeline_component: nothing
\* catches it and the script ends with a traceback
Crash(a, before) ==
    /\ pc' = "crashed"
    /\ exit_status' = 1
    /\ log' = log \o before
    /\ visited' = Append(visited, a)
    /\ UNCHANGED <<registry0, args, create_list, all_assets, assets_by_type, registry,
                   spec_files, failure_list, type_index, assets_to_publish,
                   asset_index, status, failed_file, test_file>>

FinishPipeline(a, check, r) ==
    IF r.raised
    THEN Crash(a, check \o Stamp(r.cmds, a, "resolve"))
    ELSE FinishComponent(a, check, r)

\* lines 626-635 and 656-664: a pipeline component
PublishPipeline ==
    /\ UNCHANGED unit_vars
    /\ AtAsset
    /\ Selected(create_list, CurrentAsset)
    /\ ~ExistenceCheck(CurrentAsset).found
    /\ AssetConfig(CurrentAsset).type = COMPONENT
    /\ spec_files[CurrentAsset].ctype = PIPELINE
    /\ RecordAssetId(CurrentAsset)
    /\ FinishPipeline(CurrentAsset,
                      Stamp(ExistenceCheck(CurrentAsset).cmds, CurrentAsset, "check"),
                      validate_and_prepare_pipeline_component(
                          registry, spec_files[CurrentAsset], args.version_suffix,
                          args.registry_name))

\* lines 643-664: a model is prepared, its spec file updated, and it is
\* created at its bare version
PublishModel ==
    /\ UNCHANGED unit_vars
    /\ AtAsset
    /\ Selected(create_list, CurrentAsset)
    /\ ~ExistenceCheck(CurrentAsset).found
    /\ AssetConfig(CurrentAsset).type = MODEL
    /\ RecordAssetId(CurrentAsset)
    /\ LET a == CurrentAsset
           check == Stamp(ExistenceCheck(a).cmds, a, "check")
       IN  \E prepared \in BOOLEAN :
             IF prepared
             THEN /\ spec_files' = [spec_files EXCEPT ![a].prepared = TRUE]
                  /\ RunCreate(a, AssetConfig(a).version,
                               check \o Stamp(<<Cmd(DUMP_YAML, None, MODEL, None, None)>>,
                                              a, "resolve"))
             ELSE /\ spec_files' = spec_files
                  /\ RecordFailure(a, check)
    /\ NextAsset(CurrentAsset)

\* lines 626-664: data, environments and components of other types are
\* created as they are
PublishPlain ==
    /\ UNCHANGED unit_vars
    /\ AtAsset
    /\ Selected(create_list, CurrentAsset)
    /\ ~ExistenceCheck(CurrentAsset).found
    /\ AssetConfig(CurrentAsset).type # MODEL
    /\ AssetConfig(CurrentAsset).type = COMPONENT
          => spec_files[CurrentAsset].ctype \notin {"none", COMMAND, PARALLEL, PIPELINE}
    /\ RecordAssetId(CurrentAsset)
    /\ RunCreate(CurrentAsset,
                 FinalVersion(AssetConfig(CurrentAsset).version, args.version_suffix),
                 Stamp(ExistenceCheck(CurrentAsset).cmds, CurrentAsset, "check"))
    /\ NextAsset(CurrentAsset)
    /\ UNCHANGED spec_files

\* lines 667-669: the names of the failed assets, by type, in order
RECURSIVE NamesOfType(_, _)
NamesOfType(fl, asset_type) ==
    IF fl = << >> THEN << >>
    ELSE (IF AssetConfig(Head(fl)).type = asset_type
          THEN <<AssetConfig(Head(fl)).name>> ELSE << >>)
         \o NamesOfType(Tail(fl), asset_type)

\* a manifest that keeps one name for each type
failed_assets_last_only(fl) ==
    [t \in {AssetConfig(fl[i]).type : i \in DOMAIN fl} |->
        <<NamesOfType(fl, t)[Len(NamesOfType(fl, t))]>>]

failed_assets(fl) ==
    [t \in {AssetConfig(fl[i]).type : i \in DOMAIN fl} |-> NamesOfType(fl, t)]

\* line 666: nothing failed, no manifest is written
NothingFailed ==
    /\ UNCHANGED unit_vars
    /\ pc = "report"
    /\ Len(failure_list) = 0
    /\ pc' = "tests"
    /\ UNCHANGED <<registry0, args, create_list, all_assets, assets_by_type, registry, spec_files,
                   failure_list, asset_ids, type_index, assets_to_publish, asset_index,
                   status, visited, log, failed_file, test_file, exit_status>>

\* lines 666-678: the manifest of the failed assets is written
WriteFailedList ==
    /\ UNCHANGED unit_vars
    /\ pc = "report"
    /\ Len(failure_list) > 0
    /\ args.failed_list # None
    /\ failed_file' = [written |-> TRUE, content |-> failed_assets(failure_list)]
    /\ log' = Append(log, [Cmd("dump_failed", None, "-", None, None)
                              EXCEPT !.phase = "report"])
    /\ pc' = "tests"
    /\ UNCHANGED <<registry0, args, create_list, all_assets, assets_by_type, registry, spec_files,
                   failure_list, asset_ids, type_index, assets_to_publish, asset_index,
                   status, visited, test_file, exit_status>>

\* line 677: open(None, "w") raises TypeError when --failed-list was omitted
WriteFailedListRaises ==
    /\ UNCHANGED unit_vars
    /\ pc = "report"
    /\ Len(failure_list) > 0
    /\ args.failed_list = None
    /\ pc' = "crashed"
    /\ exit_status' = 1
    /\ UNCHANGED <<registry0, args, create_list, all_assets, assets_by_type, registry, spec_files,
                   failure_list, asset_ids, type_index, assets_to_publish, asset_index,
                   status, visited, log, failed_file, test_file>>

\* preprocess_test_files: a job whose component is a key of asset_ids gets
\* the asset ID
preprocess_test_files(test_jobs, ids) ==
    [i \in DOMAIN test_jobs |->
        IF test_jobs[i] \in DOMAIN ids THEN ids[test_jobs[i]] ELSE test_jobs[i]]

\* lines 680-686: the test job files are rewritten
PreprocessTests ==
    /\ UNCHANGED unit_vars
    /\ pc = "tests"
    /\ args.tests_directory # None
    /\ test_file' = preprocess_test_files(test_file, asset_ids)
    /\ log' = Append(log, [Cmd("dump_test", None, "-", None, None)
                              EXCEPT !.phase = "tests"])
    /\ pc' = "done"
    /\ exit_status' = 0
    /\ UNCHANGED <<registry0, args, create_list, all_assets, assets_by_type, registry, spec_files,
                   failure_list, asset_ids, type_index, assets_to_publish, asset_index,
                   status, visited, failed_file>>

\* lines 687-688: no tests directory
NoTests ==
    /\ UNCHANGED unit_vars
    /\ pc = "tests"
    /\ args.tests_directory = None
    /\ pc' = "done"
    /\ exit_status' = 0
    /\ UNCHANGED <<registry0, args, create_list, all_assets, assets_by_type, registry, spec_files,
                   failure_list, asset_ids, type_index, assets_to_publish, asset_index,
                   status, visited, log, failed_file, test_file>>

Next ==
    \/ ExitEmptyCreateList
    \/ Discover
    \/ SkipType
    \/ BeginType
    \/ EndType
    \/ EndPass
    \/ SkipAsset
    \/ UpdateExisting
    \/ PublishComponent
    \/ PublishPipeline
    \/ PublishModel
    \/ PublishPlain
    \/ NothingFailed
    \/ WriteFailedList
    \/ WriteFailedListRaises
    \/ PreprocessTests
    \/ NoTests

Spec == Init /\ [][Next]_vars

TypeOK ==
    /\ pc \in {"start", "type", "asset", "report", "tests", "done", "crashed"}
    /\ exit_status \in {-1, 0, 1}
    /\ type_index \in 1..(Len(CREATE_ORDER) + 1)

(***************************************************************************)
(* Properties                                                              *)
(***************************************************************************)
InSeq(seq, x) == \E i \in DOMAIN seq : seq[i] = x

Count(seq, x) == Cardinality({i \in DOMAIN seq : seq[i] = x})

PosIn(seq, x) == CHOOSE i \in DOMAIN seq : seq[i] = x

HasEntry(a, op) == \E i \in DOMAIN log : log[i].owner = a /\ log[i].op = op

IsComponent(a) == AssetConfig(a).type = COMPONENT

IsPipeline(a) == IsComponent(a) /\ AssetConfig(a).spec.ctype = PIPELINE

\* the loop body ran on the asset and did not skip it
Reached(a) == InSeq(visited, a) /\ Selected(create_list, a)

\* the asset was in the target registry, at its bare version, when the run began
ExistsAtStart(a) ==
    Exists(registry0, Entry(args.registry_name, AssetConfig(a).type, AssetConfig(a).name,
                            AssetConfig(a).version))

Terminated == pc \in {"done", "crashed"}

\* a query of the registry for a version of a dependency of the asset at hand
IsDependencyQuery(e) == e.phase = "resolve" /\ e.op = "show"

SameDependency(e, f) ==
    /\ e.owner = f.owner
    /\ e.registry = f.registry
    /\ e.type = f.type
    /\ e.name = f.name

\* the environment of the component was found in a registry
EnvironmentResolved(a) ==
    \E i \in DOMAIN log :
        /\ log[i].owner = a
        /\ IsDependencyQuery(log[i])
        /\ log[i].type = ENVIRONMENT
        /\ log[i].result = "found"

\* C1: a command or parallel component that is not in the registry and
\* whose environment reference is not resolved to an asset of a registry is
\* in the failure list, no create command is issued for it and its spec
\* file is not rewritten.
C1_UnresolvedEnvironmentFails ==
    \A a \in AssetIds :
        (/\ IsComponent(a)
         /\ AssetConfig(a).spec.ctype \in {COMMAND, PARALLEL}
         /\ status[a] \in {"Created", "Failed"}
         /\ ~EnvironmentResolved(a))
        => /\ InSeq(failure_list, a)
           /\ ~HasEntry(a, "create")
           /\ ~HasEntry(a, DUMP_YAML)
           /\ spec_files[a] = AssetConfig(a).spec

\* C2: when the run has ended, every selected asset was processed to
\* AlreadyExists, Created or Failed, and the failed ones are in the failure
\* list: a failure in the dependencies of one asset ends only that asset.
C2_FailureAbortsOnlyThatAsset ==
    Terminated =>
        \A a \in AssetIds :
            (InSeq(all_assets, a) /\ Selected(create_list, a))
            => /\ status[a] \in {"AlreadyExists", "Created", "Failed"}
               /\ status[a] = "Failed" => InSeq(failure_list, a)

\* the place of a type in the order data, environment, component, model
TypeRank(asset_type) ==
    CASE asset_type = DATA -> 1
      [] asset_type = ENVIRONMENT -> 2
      [] asset_type = COMPONENT -> 3
      [] asset_type = MODEL -> 4

IsRegistryOp(e) == e.op \in {"show", "list", "create"}

\* C3: the registry operations (existence check, dependency resolution,
\* create) are issued in the type order data, environment, component, model:
\* no operation for an asset of an earlier type comes after one for an asset
\* of a later type.
C3_TypeOrder ==
    \A j \in DOMAIN log :
        IsRegistryOp(log[j])
        => \A i \in 1..(j - 1) :
              IsRegistryOp(log[i])
              => TypeRank(AssetConfig(log[i].owner).type)
                    <= TypeRank(AssetConfig(log[j].owner).type)

\* C3 witness: assets of two types were found with the later type first, the
\* create list names the types in another order, and both were operated on.
C3_Witness ==
    /\ pc = "done"
    /\ create_list # << >>
    /\ create_list[1].type = COMPONENT
    /\ \E i, j \in DOMAIN all_assets :
        /\ i < j
        /\ TypeRank(AssetConfig(all_assets[i]).type) > TypeRank(AssetConfig(all_assets[j]).type)
        /\ HasEntry(all_assets[i], "create")
        /\ HasEntry(all_assets[j], "create")

\* C4: among the components, every component that is not a pipeline is
\* processed before any pipeline component, and inside each of the two
\* groups the assets are processed in the order they were found.
C4_PipelinesLast ==
    /\ \A i, j \in DOMAIN visited :
        (i < j /\ IsComponent(visited[i]) /\ IsComponent(visited[j]))
        => /\ IsPipeline(visited[i]) => IsPipeline(visited[j])
           /\ (IsPipeline(visited[i]) <=> IsPipeline(visited[j]))
                 => PosIn(all_assets, visited[i]) < PosIn(all_assets, visited[j])
    /\ \A i \in DOMAIN visited :
        IsPipeline(visited[i])
        => \A c \in AssetIds :
              (InSeq(all_assets, c) /\ IsComponent(c) /\ ~IsPipeline(c))
              => \E k \in 1..(i - 1) : visited[k] = c

\* C4 witness: a pipeline component was found before a component that is
\* not a pipeline, and both were processed.
C4_Witness ==
    /\ Terminated
    /\ \E i, j \in DOMAIN all_assets :
        /\ i < j
        /\ IsPipeline(all_assets[i])
        /\ IsComponent(all_assets[j]) /\ ~IsPipeline(all_assets[j])
        /\ InSeq(visited, all_assets[i])
        /\ InSeq(visited, all_assets[j])

\* C5: for a selected asset that is in the target registry at its bare
\* version, the run issues no create command, rewrites no spec file, does
\* nothing but the existence check and a metadata refresh, and never puts
\* the asset in the failure list, also when the refresh raises.
C5_ExistingAssetUntouched ==
    \A a \in AssetIds :
        (Reached(a) /\ ExistsAtStart(a))
        => /\ status[a] = "AlreadyExists"
           /\ ~InSeq(failure_list, a)
           /\ spec_files[a] = AssetConfig(a).spec
           /\ \A i \in DOMAIN log :
                 log[i].owner = a
                 => \/ log[i].op = "show" /\ log[i].phase = "check"
                    \/ log[i].op = "update_metadata"

\* C5 witness: the metadata refresh of an existing model raised, and the run
\* went on to its end.
C5_Witness ==
    /\ pc = "done"
    /\ \E i \in DOMAIN log :
        /\ log[i].op = "update_metadata"
        /\ log[i].result = "raised"
        /\ ExistsAtStart(log[i].owner)

\* C6: a dependency is queried first at its bare version and a second time
\* only if a version suffix is configured, then at '<version>-<suffix>' and
\* only after the bare version was not found; when no queried version is
\* found the dependent asset is reported as failed.
C6_BareThenSuffixed ==
    /\ \A i, j \in DOMAIN log :
        (/\ i < j
         /\ IsDependencyQuery(log[i])
         /\ IsDependencyQuery(log[j])
         /\ SameDependency(log[i], log[j]))
        => /\ args.version_suffix # None
           /\ log[i].result = "missing"
           /\ log[j].version = log[i].version \o DASH \o args.version_suffix
    /\ \A i \in DOMAIN log :
        (/\ IsDependencyQuery(log[i])
         /\ status[log[i].owner] \in {"Created", "Failed"}
         /\ ~\E j \in DOMAIN log :
               /\ IsDependencyQuery(log[j])
               /\ SameDependency(log[i], log[j])
               /\ log[j].result = "found")
        => status[log[i].owner] = "Failed" /\ InSeq(failure_list, log[i].owner)

\* the first dependency reference of the spec file of a component
HasReference(a) ==
    /\ IsComponent(a)
    /\ IF IsPipeline(a)
       THEN \E i \in DOMAIN AssetConfig(a).spec.jobs :
               AssetConfig(a).spec.jobs[i].component # None
       ELSE AssetConfig(a).spec.env_at # "none"

FirstReference(a) ==
    IF IsPipeline(a)
    THEN LET jobs == AssetConfig(a).spec.jobs
         IN  jobs[CHOOSE i \in DOMAIN jobs :
                    /\ jobs[i].component # None
                    /\ \A k \in 1..(i - 1) : jobs[k].component = None].component
    ELSE AssetConfig(a).spec.environment.s

ReferenceType(a) == IF IsPipeline(a) THEN COMPONENT ELSE ENVIRONMENT

LabelOfReference(a) ==
    get_parsed_details_from_asset_uri(ReferenceType(a), FirstReference(a)).label

NameOfReference(a) ==
    get_parsed_details_from_asset_uri(ReferenceType(a), FirstReference(a)).name

\* C7: when the dependency reference of a component carries the label
\* 'latest', the versions of the dependency are listed and the first listed
\* version is the one queried; with any other label no version is queried.
\* This holds for environment references and for the component references
\* of pipeline jobs.
C7_LatestUsesFirstListed ==
    \A a \in AssetIds :
        (/\ IsComponent(a)
         /\ HasReference(a)
         /\ Reached(a)
         /\ ~ExistsAtStart(a)
         /\ LabelOfReference(a) # None)
        => IF LabelOfReference(a) = LATEST_LABEL
           THEN \E i \in DOMAIN log :
                   /\ log[i].owner = a
                   /\ log[i].op = "list"
                   /\ log[i].name = NameOfReference(a)
                   /\ log[i].versions # << >>
                         => /\ i + 1 \in DOMAIN log
                            /\ log[i + 1].owner = a
                            /\ log[i + 1].op = "show"
                            /\ log[i + 1].version = log[i].versions[1]
           ELSE ~\E i \in DOMAIN log : log[i].owner = a /\ IsDependencyQuery(log[i])

\* C8: an asset whose create command ended with a non-zero status is in the
\* failure list exactly once and the loop goes on with the next asset; an
\* asset whose create command ended with status 0 is not in the failure
\* list; no asset is in the failure list twice.
C8_CreateFailureRecordedOnce ==
    /\ \A i \in DOMAIN log :
        log[i].op = "create"
        => /\ Count(failure_list, log[i].owner)
                 = (IF log[i].result = "failed" THEN 1 ELSE 0)
           /\ (/\ log[i].owner = visited[Len(visited)]
               /\ pc = "asset"
               /\ InSeq(assets_to_publish, log[i].owner))
                 => asset_index = PosIn(assets_to_publish, log[i].owner) + 1
           /\ (log[i].owner = visited[Len(visited)] /\ pc = "crashed")
                 => type_index > Len(CREATE_ORDER)
    /\ \A a \in AssetIds : Count(failure_list, a) <= 1

\* C8 witness: a create command failed, a later asset was created, and the
\* run reached its end.
C8_Witness ==
    /\ pc = "done"
    /\ \E i, j \in DOMAIN log :
        /\ i < j
        /\ log[i].op = "create" /\ log[i].result = "failed"
        /\ log[j].op = "create" /\ log[j].result = "ok"
        /\ log[i].owner # log[j].owner

\* the names of the failed assets of a type
FailedNames(asset_type) ==
    {AssetConfig(failure_list[i]).name :
        i \in {k \in DOMAIN failure_list : AssetConfig(failure_list[k]).type = asset_type}}

\* C9: the manifest of the failed assets maps each type to exactly the names
\* of the failed assets of that type; it is written after the last asset was
\* processed and before the test job files are rewritten.
C9_FailedManifest ==
    /\ failed_file.written
        => /\ pc \in {"tests", "done"}
           /\ DOMAIN failed_file.content = {t \in AssetTypes : FailedNames(t) # {}}
           /\ \A t \in DOMAIN failed_file.content :
                 /\ {failed_file.content[t][i] : i \in DOMAIN failed_file.content[t]}
                       = FailedNames(t)
                 /\ Len(failed_file.content[t]) = Cardinality(FailedNames(t))
    /\ \A i \in DOMAIN log :
        log[i].op = "dump_failed"
        => /\ failed_file.written
           /\ \A j \in DOMAIN log :
                 /\ j < i => log[j].op # "dump_test"
                 /\ j > i => log[j].op = "dump_test"
    /\ (pc = "done" /\ failure_list # << >>) => failed_file.written

\* C9 witness: assets of two types failed, the manifest was written and the
\* test job file was rewritten after it.
C9_Witness ==
    /\ pc = "done"
    /\ failed_file.written
    /\ Cardinality(DOMAIN failed_file.content) = 2
    /\ HasEntry("-", "dump_test")

\* C10: the run never ends with a status other than 0, whatever the
\* outcomes of the commands and whichever optional arguments are given, and
\* with an empty create list it ends before any command or file write.
C10_ExitStatusZero ==
    /\ exit_status \in {-1, 0}
    /\ pc # "crashed"
    /\ (Terminated /\ create_list = << >>) => (log = << >> /\ ~failed_file.written)

\* a dependency of the asset was queried and found at none of the versions
DependencyNotFound(a) ==
    \E i \in DOMAIN log :
        /\ log[i].owner = a
        /\ IsDependencyQuery(log[i])
        /\ ~\E j \in DOMAIN log :
              /\ IsDependencyQuery(log[j])
              /\ SameDependency(log[i], log[j])
              /\ log[j].result = "found"

\* the asset ID of the registry entry that a query found
FoundId(e) == ASSET_ID_TEMPLATE(e.registry, pluralize_asset_type(e.type), e.name, e.version)

\* C11: a pipeline component with a job whose dependency is found at none of
\* the tried versions is in the failure list, no create command is issued
\* for it and its spec file is left as it was, also when earlier jobs did
\* resolve; the spec file is written only when every job with a component
\* reference resolved, each such job then holds the ID of a found registry
\* entry, and jobs without a component reference are written back unchanged.
C11_PipelineAllOrNothing ==
    \A a \in AssetIds :
        (IsPipeline(a) /\ Reached(a) /\ ~ExistsAtStart(a))
        => /\ DependencyNotFound(a)
                 => /\ InSeq(failure_list, a)
                    /\ status[a] = "Failed"
                    /\ ~HasEntry(a, "create")
                    /\ ~HasEntry(a, DUMP_YAML)
                    /\ spec_files[a] = AssetConfig(a).spec
           /\ spec_files[a] # AssetConfig(a).spec => HasEntry(a, DUMP_YAML)
           /\ HasEntry(a, DUMP_YAML)
                 => /\ ~DependencyNotFound(a)
                    /\ Len(spec_files[a].jobs) = Len(AssetConfig(a).spec.jobs)
                    /\ \A k \in DOMAIN AssetConfig(a).spec.jobs :
                          IF AssetConfig(a).spec.jobs[k].component = None
                          THEN spec_files[a].jobs[k] = AssetConfig(a).spec.jobs[k]
                          ELSE \E i \in DOMAIN log :
                                  /\ log[i].owner = a
                                  /\ IsDependencyQuery(log[i])
                                  /\ log[i].result = "found"
                                  /\ spec_files[a].jobs[k].component = FoundId(log[i])

\* C11 witness: the first job of a pipeline resolved, a later job did not,
\* and the pipeline has a job without a component reference.
C11_Witness ==
    \E a \in AssetIds :
        /\ IsPipeline(a)
        /\ status[a] = "Failed"
        /\ DependencyNotFound(a)
        /\ \E i \in DOMAIN log :
              log[i].owner = a /\ IsDependencyQuery(log[i]) /\ log[i].result = "found"
        /\ \E k \in DOMAIN AssetConfig(a).spec.jobs :
              AssetConfig(a).spec.jobs[k].component = None

\* the run created the asset at the version of the ID, or found it there
PublishedAs(a, id) ==
    /\ status[a] \in {"Created", "AlreadyExists"}
    /\ \E i \in DOMAIN log :
          /\ log[i].owner = a
          /\ \/ log[i].op = "create" /\ log[i].result = "ok"
             \/ log[i].op = "show" /\ log[i].phase = "check" /\ log[i].result = "found"
          /\ log[i].registry = args.registry_name
          /\ FoundId(log[i]) = id

\* C12: once the test job file is rewritten, every reference that was
\* changed is the ID of a (name, version) that the run created in, or found
\* in, the target registry, and a job whose component names no processed
\* asset keeps its reference.
C12_TestReferencesPublished ==
    HasEntry("-", "dump_test")
    => \A k \in DOMAIN TestJobs :
          IF \E a \in AssetIds : Reached(a) /\ AssetConfig(a).name = TestJobs[k]
          THEN test_file[k] # TestJobs[k]
                  => \E a \in AssetIds :
                        /\ AssetConfig(a).name = TestJobs[k]
                        /\ PublishedAs(a, test_file[k])
          ELSE test_file[k] = TestJobs[k]

(***************************************************************************)
(* The logging of the output of external commands                          *)
(***************************************************************************)
\* the number of pieces an output of a command is made of
MaxPieces == 3

BEARER_WORD == <<"B","e","a","r","e","r">>

NEWLINE == <<"\n">>

COULD_NOT_FIND == <<"C","o","u","l","d"," ","n","o","t"," ","f","i","n","d"," ",
                    "a","s","s","e","t">>

\* what an output is made of: the word Bearer, a character of a token, a
\* space, an end of line, the message for an asset that is not there
Pieces == {BEARER_WORD, <<"k">>, <<" ">>, NEWLINE, COULD_NOT_FIND}

RECURSIVE Join(_)
Join(pieces) == IF pieces = << >> THEN << >> ELSE Head(pieces) \o Join(Tail(pieces))

\* the outputs an external command may leave in stdout or stderr
Outputs == {Join(q) : q \in UNION {[1..n -> Pieces] : n \in 0..MaxPieces}}

\* "needle in text"
Contains(text, needle) ==
    \E p \in 1..(Len(text) - Len(needle) + 1) :
        SubSeq(text, p, p + Len(needle) - 1) = needle

\* where the line that holds position p ends: the index of the next "\n",
\* or one past the end of the text
RECURSIVE LineEnd(_, _)
LineEnd(text, p) ==
    IF p > Len(text) \/ <<text[p]>> = NEWLINE THEN p ELSE LineEnd(text, p + 1)

\* re.sub(r"Bearer.*", "", input) from position p on: "." matches every
\* character but "\n"
RECURSIVE SubBearer(_, _)
SubBearer(text, p) ==
    IF p > Len(text) THEN << >>
    ELSE IF LitAt(text, p, BEARER_WORD)
    THEN SubBearer(text, LineEnd(text, p))
    ELSE <<text[p]>> \o SubBearer(text, p + 1)

\* sanitize_output
sanitize_output(input) == SubBearer(input, 1)

Printed(site, text) == [site |-> site, text |-> text]

\* create_asset, lines 394-406: what it logs of the result of az ml create
create_asset_logs(stdout, stderr, returncode, debug_mode) ==
    (IF debug_mode /\ sanitize_output(stdout) # << >>
     THEN <<Printed("create stdout", sanitize_output(stdout))>> ELSE << >>)
    \o (IF returncode # 0
        THEN <<Printed("create stderr", sanitize_output(stderr))>> ELSE << >>)

\* get_asset_versions, lines 459-462: what it logs of the result of az ml list
get_asset_versions_logs(stderr, returncode) ==
    IF returncode # 0 THEN <<Printed("list stderr", stderr)>> ELSE << >>

\* get_asset_details, lines 479-484: what it logs of the result of az ml show
get_asset_details_logs(stderr, returncode) ==
    IF returncode # 0 /\ ~Contains(stderr, COULD_NOT_FIND)
    THEN <<Printed("show stderr", stderr)>> ELSE << >>

\* the functions are called on their own, outside of a run
NoRun ==
    /\ args = [registry_name |-> TargetRegistry, version_suffix |-> None,
               failed_list |-> None, tests_directory |-> None]
    /\ registry = << >>

LogInit ==
    /\ NoRun
    /\ registry0 = registry
    /\ pc = "start"
    /\ spec_files = [a \in AssetIds |-> AssetConfig(a).spec]
    /\ create_list = << >>
    /\ all_assets = << >>
    /\ assets_by_type = [t \in AssetTypes |-> << >>]
    /\ failure_list = << >>
    /\ asset_ids = [n \in {} |-> None]
    /\ type_index = 1
    /\ assets_to_publish = << >>
    /\ asset_index = 1
    /\ status = [a \in AssetIds |-> "Absent"]
    /\ visited = << >>
    /\ log = << >>
    /\ failed_file = Unwritten
    /\ test_file = TestJobs
    /\ exit_status = -1
    /\ UnitIdle

LogCreateAsset ==
    /\ calls = 0
    /\ \E stdout \in Outputs, stderr \in Outputs, returncode \in {0, 1},
          debug_mode \in BOOLEAN :
          printed' = printed \o create_asset_logs(stdout, stderr, returncode, debug_mode)
    /\ calls' = calls + 1
    /\ UNCHANGED <<run_vars, uri_vars, det_vars>>

LogGetAssetVersions ==
    /\ calls = 0
    /\ \E stderr \in Outputs, returncode \in {0, 1} :
          printed' = printed \o get_asset_versions_logs(stderr, returncode)
    /\ calls' = calls + 1
    /\ UNCHANGED <<run_vars, uri_vars, det_vars>>

LogGetAssetDetails ==
    /\ calls = 0
    /\ \E stderr \in Outputs, returncode \in {0, 1} :
          printed' = printed \o get_asset_details_logs(stderr, returncode)
    /\ calls' = calls + 1
    /\ UNCHANGED <<run_vars, uri_vars, det_vars>>

LogNext ==
    \/ LogCreateAsset
    \/ LogGetAssetVersions
    \/ LogGetAssetDetails

LogSpec == LogInit /\ [][LogNext]_vars

\* C13: no text that the script logs from the captured stdout or stderr of
\* an external command (create, show, list) holds a bearer token: every
\* logged output went through sanitize_output.
C13_NoBearerInLog ==
    \A i \in DOMAIN printed : ~Contains(printed[i].text, BEARER_WORD)

(***************************************************************************)
(* The parsing of asset URIs                                               *)
(***************************************************************************)
\* the length of the names, versions and labels
MaxLen == 2

\* characters of the names and versions of assets
NameChars == {"a", "1", "-"}

\* the texts of one to n characters
TextsUpTo(n) == UNION {[1..k -> NameChars] : k \in 1..n}

\* asset names; "azureml" is a name as well as the prefix of a workspace URI
Names == TextsUpTo(MaxLen) \cup {PROD_SYSTEM_REGISTRY}

Versions == TextsUpTo(MaxLen)

Labels == TextsUpTo(MaxLen) \cup {LATEST_LABEL}

Registries == {TargetRegistry, OtherRegistry, PROD_SYSTEM_REGISTRY}

\* the asset types the script parses URIs for: lines 172-173 and 238-240
ParsedTypes == {COMPONENT, ENVIRONMENT}

COLON == <<":">>

AT == <<"@">>

Request(kind, asset_type, registry_name, asset_name, version, label, uri) ==
    [kind |-> kind, asset_type |-> asset_type, registry |-> registry_name,
     name |-> asset_name, version |-> version, label |-> label, uri |-> uri]

\* the call of get_parsed_details_from_asset_uri
Parse(req) ==
    /\ calls' = calls + 1
    /\ request' = req
    /\ parsed' = get_parsed_details_from_asset_uri(req.asset_type, req.uri)
    /\ UNCHANGED <<run_vars, log_vars, det_vars>>

\* an asset ID built as at lines 611-616, parsed for the same asset type
ParseAssetId ==
    /\ calls = 0
    /\ \E t \in AssetTypes, r \in Registries, n \in Names, v \in Versions :
           Parse(Request("id", t, r, n, v, None,
                         ASSET_ID_TEMPLATE(r, pluralize_asset_type(t), n, v)))

\* a registry URI with a label
ParseRegistryLabel ==
    /\ calls = 0
    /\ \E t \in ParsedTypes, r \in Registries, n \in Names, l \in Labels :
           Parse(Request("registry label", t, r, n, None, l,
                         AZUREML_REGISTRIES \o r \o SLASH \o pluralize_asset_type(t) \o SLASH
                             \o n \o SLASH_LABELS \o l))

\* name:version, with or without azureml: before it
ParseWorkspaceVersion ==
    /\ calls = 0
    /\ \E t \in ParsedTypes, prefix \in {None, AZUREML_COLON}, n \in Names, v \in Versions :
           Parse(Request("workspace version", t, None, n, v, None,
                         prefix \o n \o COLON \o v))

\* name@label, with or without azureml: before it
ParseWorkspaceLabel ==
    /\ calls = 0
    /\ \E t \in ParsedTypes, prefix \in {None, AZUREML_COLON}, n \in Names, l \in Labels :
           Parse(Request("workspace label", t, None, n, None, l,
                         prefix \o n \o AT \o l))

\* the asset ID of an asset of another type than the expected one
ParseOtherType ==
    \E t \in ParsedTypes, other \in AssetTypes, r \in {OtherRegistry}, n \in Names,
       v \in Versions :
        /\ calls = 0
        /\ other # t
        /\ Parse(Request("other type", t, r, n, v, None,
                         ASSET_ID_TEMPLATE(r, pluralize_asset_type(other), n, v)))

\* a name alone
ParseName ==
    /\ calls = 0
    /\ \E t \in ParsedTypes, n \in Names :
           Parse(Request("name", t, None, n, None, None, n))

UriNext ==
    \/ ParseAssetId
    \/ ParseRegistryLabel
    \/ ParseWorkspaceVersion
    \/ ParseWorkspaceLabel
    \/ ParseOtherType
    \/ ParseName

UriSpec == LogInit /\ [][UriNext]_vars

Details(asset_name, version, label, registry_name) ==
    [raised |-> FALSE, name |-> asset_name, version |-> version, label |-> label,
     registry |-> registry_name]

\* C14: round trip: the asset ID built with ASSET_ID_TEMPLATE and
\* pluralize_asset_type from a type, a registry, a name and a version is
\* parsed, for the same type, to (name, version, None, registry).
C14_AssetIdRoundTrip ==
    request.kind = "id"
    => parsed = Details(request.name, request.version, None, request.registry)

\* C14 witness: the ID of a data asset, the type whose plural is the type
\* itself, with the name "azureml" in the registry "azureml", was parsed.
C14_Witness ==
    /\ request.kind = "id"
    /\ request.asset_type = DATA
    /\ request.name = PROD_SYSTEM_REGISTRY
    /\ request.registry = PROD_SYSTEM_REGISTRY
    /\ ~parsed.raised

\* C15: a workspace URI name:version, with or without the azureml: prefix,
\* is parsed to (name, version, None, None), and name@label to
\* (name, None, label, None).
C15_WorkspaceUri ==
    /\ request.kind = "workspace version"
          => parsed = Details(request.name, request.version, None, None)
    /\ request.kind = "workspace label"
          => parsed = Details(request.name, None, request.label, None)

\* C15 witness: azureml:azureml:<version> was parsed, where the name is the
\* text of the prefix.
C15_Witness ==
    /\ request.kind = "workspace version"
    /\ request.name = PROD_SYSTEM_REGISTRY
    /\ LitAt(request.uri, 1, AZUREML_COLON \o AZUREML_COLON)
    /\ ~parsed.raised

\* C16: no URI matches both the registry shape of the expected type and the
\* workspace shape, and a URI that is not an instance of exactly one of the
\* two (the asset ID of an asset of another type, a name alone) makes the
\* parsing fail.
C16_ShapesExclusive ==
    request.kind # "none"
    => /\ ~(/\ RegistryAssetMatch(pluralize_asset_type(request.asset_type),
                                  request.uri).matched
            /\ WorkspaceAssetMatch(request.uri).matched)
       /\ request.kind \in {"other type", "name"} => parsed.raised

(***************************************************************************)
(* The post-processing of the results of the detector                      *)
(***************************************************************************)
\* the width and the height of an image, in pixels
MaxSize == 2

\* the number of points of a contour
MaxPoints == 6

\* the number of contours of a mask
MaxContours == 2

\* image sizes, (width, height) as Image.size gives them
ImageSizes == (1..MaxSize) \X (1..MaxSize)

\* the values of a box coordinate: inside the image, on its border and
\* one pixel outside of it
BoxCoords == (-1)..(MaxSize + 1)

\* a box of the detector: top x, top y, bottom x, bottom y
Bboxes == BoxCoords \X BoxCoords \X BoxCoords \X BoxCoords

\* the contour of n points that runs along the diagonal of the image
Contour(n) == [i \in 1..n |-> <<i - 1, i - 1>>]

\* what bitmap_to_polygon returns for a mask: contours, each one a list of
\* (x, y) points
Polygons ==
    UNION {[1..k -> {Contour(n) : n \in 1..MaxPoints}] : k \in 0..MaxContours}

\* float(x) / size, kept as a fraction
Ratio(x, size) == [num |-> x, den |-> size]

\* lines 172-177 and 221-226: the box of the output
NormalizedBox(bbox, image_size) ==
    [topX |-> Ratio(bbox[1], image_size[1]),
     topY |-> Ratio(bbox[2], image_size[2]),
     bottomX |-> Ratio(bbox[3], image_size[1]),
     bottomY |-> Ratio(bbox[4], image_size[2])]

\* lines 115-119: x0, y0, x1, y1, ... of the points of one contour
RECURSIVE normalized_points(_, _)
normalized_points(points, image_size) ==
    IF points = << >> THEN << >>
    ELSE <<Ratio(Head(points)[1], image_size[1]), Ratio(Head(points)[2], image_size[2])>>
            \o normalized_points(Tail(points), image_size)

\* _remove_invalid_segments: len(segment) >= 6, where a segment is the list
\* of the points of a contour
remove_invalid_segments(polygon) ==
    SelectSeq(polygon, LAMBDA segment : Len(segment) >= 6)

\* _normalize_polygon
normalize_polygon(polygon, image_size) ==
    [i \in DOMAIN polygon |-> normalized_points(polygon[i], image_size)]

\* _process_object_detection_results, for one image and its boxes
process_object_detection_results(bboxes, image_size) ==
    [i \in DOMAIN bboxes |-> [box |-> NormalizedBox(bboxes[i], image_size),
                              polygon |-> << >>]]

\* lines 215-231, for one box and its mask
process_instance(bbox, polygon, image_size) ==
    IF Len(remove_invalid_segments(polygon)) > 0
    THEN <<[box |-> NormalizedBox(bbox, image_size),
            polygon |-> normalize_polygon(remove_invalid_segments(polygon), image_size)]>>
    ELSE << >>

ProcessObjectDetection ==
    /\ calls = 0
    /\ \E image_size \in ImageSizes, bbox \in Bboxes :
          /\ detected' = [task |-> "object detection", image_size |-> image_size,
                          bbox |-> bbox, polygon |-> << >>]
          /\ predictions' = process_object_detection_results(<<bbox>>, image_size)
    /\ calls' = 1
    /\ UNCHANGED <<run_vars, log_vars, uri_vars>>

ProcessInstanceSegmentation ==
    /\ calls = 0
    /\ \E image_size \in ImageSizes, bbox \in Bboxes, polygon \in Polygons :
          /\ detected' = [task |-> "instance segmentation", image_size |-> image_size,
                          bbox |-> bbox, polygon |-> polygon]
          /\ predictions' = process_instance(bbox, polygon, image_size)
    /\ calls' = 1
    /\ UNCHANGED <<run_vars, log_vars, uri_vars>>

DetNext ==
    \/ ProcessObjectDetection
    \/ ProcessInstanceSegmentation

DetSpec == LogInit /\ [][DetNext]_vars

\* a fraction lies in [0, 1]
InUnitInterval(r) == 0 <= r.num /\ r.num <= r.den

\* C17: every coordinate of every box of the inference output lies in
\* [0, 1], for an image of at least 1x1 pixel, for object detection and
\* for instance segmentation, whatever boxes the detector returns.
C17_BoxesInUnitSquare ==
    \A i \in DOMAIN predictions :
        /\ InUnitInterval(predictions[i].box.topX)
        /\ InUnitInterval(predictions[i].box.topY)
        /\ InUnitInterval(predictions[i].box.bottomX)
        /\ InUnitInterval(predictions[i].box.bottomY)

\* the contours of at least 3 points
AtLeastTriangles(polygon) == SelectSeq(polygon, LAMBDA segment : Len(segment) >= 3)

\* C18: in instance segmentation a contour of a mask is in the output if
\* and only if it has at least 3 points (6 coordinates): the polygons of
\* the output are the contours of at least 3 points, in order, and a box
\* is dropped only when its mask has no such contour.
C18_PolygonKeptIffTriangle ==
    detected.task = "instance segmentation"
    => IF AtLeastTriangles(detected.polygon) = << >>
       THEN predictions = << >>
       ELSE /\ Len(predictions) = 1
            /\ predictions[1].polygon
                  = normalize_polygon(AtLeastTriangles(detected.polygon),
                                      detected.image_size)

EndsWith(text, tail) ==
    /\ Len(text) >= Len(tail)
    /\ SubSeq(text, Len(text) - Len(tail) + 1, Len(text)) = tail

\* the first query of the run for the dependency of log[j]
IsFirstQuery(j) ==
    /\ IsDependencyQuery(log[j])
    /\ ~\E i \in 1..(j - 1) : IsDependencyQuery(log[i]) /\ SameDependency(log[i], log[j])

\* C19: with a version suffix configured, the first version of a dependency
\* that is queried is the suffixed one, '<version>-<suffix>', and the bare
\* version is queried only after it, when the suffixed one was not found.
C19_SuffixedBeforeBare ==
    args.version_suffix # None
    => \A j \in DOMAIN log :
          /\ IsFirstQuery(j) => EndsWith(log[j].version, DASH \o args.version_suffix)
          /\ (IsDependencyQuery(log[j]) /\ ~IsFirstQuery(j))
                => \E i \in 1..(j - 1) :
                      /\ IsFirstQuery(i)
                      /\ SameDependency(log[i], log[j])
                      /\ log[i].result = "missing"
                      /\ log[i].version = log[j].version \o DASH \o args.version_suffix

\* the registry a job of a pipeline names for its component, or the target
\* registry of the run when it names none
RegistryOfJob(job) ==
    IF get_parsed_details_from_asset_uri(COMPONENT, job.component).registry # None
    THEN get_parsed_details_from_asset_uri(COMPONENT, job.component).registry
    ELSE args.registry_name

\* C20: every existence query for the component of a job of a pipeline is
\* made in the registry that the URI of this job names, or in the target
\* registry of the run when the URI names none, whatever the earlier jobs
\* of the pipeline name; a job in a registry other than the target and
\* 'azureml' is warned about.
C20_JobRegistryIsItsOwn ==
    \A i \in DOMAIN log :
        (/\ log[i].phase = "resolve"
         /\ log[i].op \in {"show", "warn"}
         /\ IsPipeline(log[i].owner))
        => \E k \in DOMAIN AssetConfig(log[i].owner).spec.jobs :
              /\ AssetConfig(log[i].owner).spec.jobs[k].component # None
              /\ get_parsed_details_from_asset_uri(
                     COMPONENT, AssetConfig(log[i].owner).spec.jobs[k].component).name
                    = log[i].name
              /\ log[i].registry = RegistryOfJob(AssetConfig(log[i].owner).spec.jobs[k])
              /\ log[i].op = "warn"
                    => log[i].registry \notin {PROD_SYSTEM_REGISTRY, args.registry_name}

=============================================================================
